---- MODULE Spec2Model ----
(***************************************************************************)
(* Model of app.py: a Flask course catalog whose only persistent state is  *)
(* the JSON file course_catalog.json.  Python values are tagged records,   *)
(* the file content is the token sequence json.dump produces, and          *)
(* json.load is a recursive-descent parse of that sequence.                *)
(***************************************************************************)
EXTENDS Integers, Sequences, FiniteSets, TLC

VARIABLES
    file,       \* course_catalog.json: [exists, text]
    req,        \* the request handled last (sequential server)
    resp,       \* its response: what was returned / raised, and the flash
    prevFile,   \* the file as it was when that request arrived
    nwrites,    \* number of open(COURSE_FILE, 'w') done by that request
    saved,      \* record store: the records passed to save_courses so far
    loaded,     \* record store: result of the last load_courses call
    fresh,      \* record store: loaded was read after the last save
    pc,         \* concurrent server: position of each request
    rform,      \* concurrent server: form of each request
    data,       \* concurrent server: the argument each passes to save_courses
    courses,    \* concurrent server: the local list inside save_courses
    out,        \* concurrent server: outcome of each request
    order,      \* concurrent server: requests in the order they wrote the file
    seen        \* concurrent server: writes done when each read in save_courses

vars == <<file, req, resp, prevFile, nwrites, saved, loaded, fresh,
          pc, rform, data, courses, out, order, seen>>

----------------------------------------------------------------------------
(* Bounds *)

MaxMissing == 1     \* fields of a submitted form that are absent or empty
MaxSaves == 3       \* save_courses calls in a record-store run

----------------------------------------------------------------------------
(* Python values *)

NoneV == [tag |-> "none"]
Str(s) == [tag |-> "str", s |-> s]
List(items) == [tag |-> "list", items |-> items]
Dict(d) == [tag |-> "dict", d |-> d]

\* bool(v) for the values that occur: None, str, list, dict
Truthy(v) ==
    CASE v.tag = "none" -> FALSE
      [] v.tag = "str"  -> v.s # ""
      [] v.tag = "list" -> Len(v.items) > 0
      [] v.tag = "dict" -> DOMAIN v.d # {}

\* the keys of the course dict, in the order the handler inserts them
FieldNames == <<"code", "name", "instructor", "semester", "schedule",
                "classroom", "prerequisites", "grading", "description">>

FieldSet == {FieldNames[i] : i \in 1..Len(FieldNames)}

----------------------------------------------------------------------------
(* json.dump / json.load *)

Tok(t) == [t |-> t, s |-> ""]
StrTok(s) == [t |-> "str", s |-> s]

RECURSIVE DumpValue(_)
RECURSIVE DumpItems(_, _)
RECURSIVE DumpMembers(_, _)

DumpItems(items, i) ==
    IF i > Len(items) THEN <<>>
    ELSE (IF i > 1 THEN <<Tok(",")>> ELSE <<>>)
         \o DumpValue(items[i]) \o DumpItems(items, i + 1)

\* members are written in insertion order; keys is that order
DumpMembers(d, keys) ==
    IF keys = <<>> THEN <<>>
    ELSE <<StrTok(Head(keys)), Tok(":")>> \o DumpValue(d[Head(keys)])
         \o (IF Tail(keys) # <<>> THEN <<Tok(",")>> ELSE <<>>)
         \o DumpMembers(d, Tail(keys))

DumpValue(v) ==
    CASE v.tag = "none" -> <<Tok("null")>>
      [] v.tag = "str"  -> <<StrTok(v.s)>>
      [] v.tag = "list" -> <<Tok("[")>> \o DumpItems(v.items, 1) \o <<Tok("]")>>
      [] v.tag = "dict" ->
            <<Tok("{")>>
            \o DumpMembers(v.d, SelectSeq(FieldNames, LAMBDA k : k \in DOMAIN v.d))
            \o <<Tok("}")>>

ParseFail == [ok |-> FALSE, val |-> NoneV, next |-> 0]
Parsed(v, n) == [ok |-> TRUE, val |-> v, next |-> n]

TokAt(toks, i) == IF i <= Len(toks) THEN toks[i].t ELSE "eof"

RECURSIVE ParseValue(_, _)
RECURSIVE ParseItems(_, _, _)
RECURSIVE ParseMembers(_, _, _)

ParseItems(toks, i, acc) ==
    LET r == ParseValue(toks, i) IN
    IF ~r.ok THEN ParseFail
    ELSE IF TokAt(toks, r.next) = "," THEN ParseItems(toks, r.next + 1, Append(acc, r.val))
    ELSE IF TokAt(toks, r.next) = "]" THEN Parsed(List(Append(acc, r.val)), r.next + 1)
    ELSE ParseFail

\* a later duplicate key replaces an earlier one
ParseMembers(toks, i, acc) ==
    IF TokAt(toks, i) # "str" \/ TokAt(toks, i + 1) # ":" THEN ParseFail
    ELSE LET r == ParseValue(toks, i + 2)
             d == (toks[i].s :> r.val) @@ acc
         IN  IF ~r.ok THEN ParseFail
             ELSE IF TokAt(toks, r.next) = "," THEN ParseMembers(toks, r.next + 1, d)
             ELSE IF TokAt(toks, r.next) = "}" THEN Parsed(Dict(d), r.next + 1)
             ELSE ParseFail

ParseValue(toks, i) ==
    CASE TokAt(toks, i) = "null" -> Parsed(NoneV, i + 1)
      [] TokAt(toks, i) = "str"  -> Parsed(Str(toks[i].s), i + 1)
      [] TokAt(toks, i) = "["    ->
            IF TokAt(toks, i + 1) = "]" THEN Parsed(List(<<>>), i + 2)
            ELSE ParseItems(toks, i + 1, <<>>)
      [] TokAt(toks, i) = "{"    ->
            IF TokAt(toks, i + 1) = "}" THEN Parsed(Dict(<<>>), i + 2)
            ELSE ParseMembers(toks, i + 1, <<>>)
      [] OTHER -> ParseFail

\* json.load: the whole text must be one value; otherwise JSONDecodeError
JsonLoad(toks) ==
    LET r == ParseValue(toks, 1) IN
    IF r.ok /\ r.next = Len(toks) + 1 THEN [ok |-> TRUE, val |-> r.val]
    ELSE [ok |-> FALSE, val |-> NoneV]

----------------------------------------------------------------------------
(* Utility functions *)

Absent == [exists |-> FALSE, text |-> <<>>]
Written(v) == [exists |-> TRUE, text |-> DumpValue(v)]

\* load_courses(): [] when the file does not exist, else json.load of it
load_courses(f) ==
    IF ~f.exists THEN [ok |-> TRUE, val |-> List(<<>>)]
    ELSE JsonLoad(f.text)

\* variants of the append: insert(0, data), extend(data), and a list
\* holding data alone
SavePrepend(cs, d) == List(<<d>> \o cs.items)
SaveExtend(cs, d) == List(cs.items \o d.items)
SaveOverwrite(cs, d) == List(<<d>>)

\* courses.append(data) inside save_courses
SaveAppend(cs, d) == List(Append(cs.items, d))

\* save_courses(data): the file it leaves when handed file f
save_courses(f, d) == Written(SaveAppend(load_courses(f).val, d))

----------------------------------------------------------------------------
(* Requests and responses *)

\* the values a complete, valid submission carries
Codes == {"CS101", "CS102"}
Names == {"Intro", "Algo"}

BaseForm(code, name) ==
    [code |-> code, name |-> name, instructor |-> "A", semester |-> "F24",
     schedule |-> "MWF", classroom |-> "101", prerequisites |-> "None",
     grading |-> "Letter", description |-> "Intro course"]

ValidForms == {BaseForm(c, n) : c \in Codes, n \in Names}

\* request.form of a POST: a valid submission in which at most MaxMissing
\* fields are left out of the form (gone) or submitted as "" (blank)
Forms ==
    UNION { { [k \in FieldSet \ gone |-> IF k \in bad THEN "" ELSE b[k]]
              : gone \in SUBSET bad }
            : b \in ValidForms,
              bad \in {S \in SUBSET FieldSet : Cardinality(S) <= MaxMissing} }

\* the codes a URL /course/<code> is requested with
UrlCodes == Codes \cup {"CS999"}

NoForm == <<>>
Request(method, route, code, form) ==
    [method |-> method, route |-> route, code |-> code, form |-> form]

NoFlash == [msg |-> "", arg |-> "", cat |-> ""]
Flash(msg, arg, cat) == [msg |-> msg, arg |-> arg, cat |-> cat]

Render(template, ctx, flash) ==
    [kind |-> "render", target |-> template, ctx |-> ctx, flash |-> flash]
Redirect(endpoint, flash) ==
    [kind |-> "redirect", target |-> endpoint, ctx |-> NoneV, flash |-> flash]
Raise(exc) ==
    [kind |-> "error", target |-> exc, ctx |-> NoneV, flash |-> NoFlash]

\* request.form.get(k): None when the form has no such key
FormGet(form, k) == IF k \in DOMAIN form THEN Str(form[k]) ELSE NoneV

\* the course dict built from the form
CourseOf(form) == Dict([k \in FieldSet |-> FormGet(form, k)])

\* variant of the validation: all(v is not None for v in course.values())
AllFilledNotNone(course) == \A k \in DOMAIN course.d : course.d[k].tag # "none"

\* all(course.values())
AllFilled(course) == \A k \in DOMAIN course.d : Truthy(course.d[k])

\* e[k] for a str key k
Subscript(e, k) ==
    CASE e.tag = "dict" ->
            IF k \in DOMAIN e.d THEN [ok |-> TRUE, val |-> e.d[k], exc |-> ""]
            ELSE [ok |-> FALSE, val |-> NoneV, exc |-> "KeyError"]
      [] OTHER -> [ok |-> FALSE, val |-> NoneV, exc |-> "TypeError"]

\* any(existing_course["code"] == code for existing_course in courses):
\* "true", "false", or the exception the generator raises first
\* variant of the scan: no duplicate is ever reported
AnyCodeEqNever(items, i, code) == "false"

RECURSIVE AnyCodeEq(_, _, _)
AnyCodeEq(items, i, code) ==
    IF i > Len(items) THEN "false"
    ELSE LET s == Subscript(items[i], "code") IN
         IF ~s.ok THEN s.exc
         ELSE IF s.val = code THEN "true"
         ELSE AnyCodeEq(items, i + 1, code)

\* next((course for course in courses if course['code'] == code), None)
RECURSIVE FirstByCode(_, _, _)
FirstByCode(items, i, code) ==
    IF i > Len(items) THEN [ok |-> TRUE, val |-> NoneV, exc |-> ""]
    ELSE LET s == Subscript(items[i], "code") IN
         IF ~s.ok THEN s
         ELSE IF s.val = code THEN [ok |-> TRUE, val |-> items[i], exc |-> ""]
         ELSE FirstByCode(items, i + 1, code)

AllRequired == Flash("All fields are required!", "", "danger")
CodeExists == Flash("A course with this code already exists!", "", "danger")
CourseAdded == Flash("Course added successfully!", "", "success")
NoCourseFound(code) == Flash("No course found with code", code, "error")

Checked(go, r, d) == [go |-> go, resp |-> r, data |-> d]

\* POST /add_course up to the call of save_courses: the response, and
\* whether save_courses is reached (go) and with what argument (data)
AddCourseCheck(f, form) ==
    LET course == CourseOf(form) IN
    IF ~AllFilled(course)
    THEN Checked(FALSE, Render("add_course.html", NoneV, AllRequired), NoneV)
    ELSE LET ld == load_courses(f) IN
         IF ~ld.ok THEN Checked(FALSE, Raise("JSONDecodeError"), NoneV)
         ELSE LET dup == AnyCodeEq(ld.val.items, 1, course.d["code"]) IN
              CASE dup = "true" ->
                     Checked(FALSE, Render("add_course.html", NoneV, CodeExists), NoneV)
                [] dup = "false" ->
                     Checked(TRUE, Redirect("course_catalog", CourseAdded),
                             List(Append(ld.val.items, course)))
                [] OTHER -> Checked(FALSE, Raise(dup), NoneV)

Result(f, r, n) == [file |-> f, resp |-> r, nwrites |-> n]

\* POST /add_course on file f
AddCoursePostResult(f, form) ==
    LET c == AddCourseCheck(f, form) IN
    IF ~c.go THEN Result(f, c.resp, 0)
    ELSE IF ~load_courses(f).ok THEN Result(f, Raise("JSONDecodeError"), 0)
    ELSE Result(save_courses(f, c.data), c.resp, 1)

\* GET /course/<code> on file f
CourseDetailsResult(f, code) ==
    LET ld == load_courses(f) IN
    IF ~ld.ok THEN Raise("JSONDecodeError")
    ELSE LET c == FirstByCode(ld.val.items, 1, Str(code)) IN
         IF ~c.ok THEN Raise(c.exc)
         ELSE IF ~Truthy(c.val) THEN Redirect("course_catalog", NoCourseFound(code))
         ELSE Render("course_details.html", c.val, NoFlash)

\* GET /catalog on file f
CourseCatalogResult(f) ==
    LET ld == load_courses(f) IN
    IF ~ld.ok THEN Raise("JSONDecodeError")
    ELSE Render("course_catalog.html", ld.val, NoFlash)

----------------------------------------------------------------------------
(* The server handling one request at a time *)

Procs == {1, 2}

storeIdle == <<saved, loaded, fresh>>
raceIdle == <<pc, rform, data, courses, out, order, seen>>

StoreInit ==
    /\ saved = <<>>
    /\ loaded = [ok |-> TRUE, val |-> List(<<>>)]
    /\ fresh = FALSE

RaceInit ==
    /\ pc = [p \in Procs |-> "idle"]
    /\ rform = [p \in Procs |-> NoForm]
    /\ data = [p \in Procs |-> List(<<>>)]
    /\ courses = [p \in Procs |-> List(<<>>)]
    /\ out = [p \in Procs |-> Raise("")]
    /\ order = <<>>
    /\ seen = [p \in Procs |-> 0]

ServerInit ==
    /\ req = Request("", "", "", NoForm)
    /\ resp = Raise("")
    /\ prevFile = Absent
    /\ nwrites = 0

serverIdle == <<req, resp, prevFile, nwrites>>

Init ==
    /\ file = Absent
    /\ ServerInit
    /\ StoreInit
    /\ RaceInit

Handled(r, res) ==
    /\ req' = r
    /\ resp' = res.resp
    /\ file' = res.file
    /\ prevFile' = file
    /\ nwrites' = res.nwrites
    /\ UNCHANGED storeIdle
    /\ UNCHANGED raceIdle

index ==
    Handled(Request("GET", "index", "", NoForm),
            Result(file, Render("index.html", NoneV, NoFlash), 0))

course_catalog ==
    Handled(Request("GET", "course_catalog", "", NoForm),
            Result(file, CourseCatalogResult(file), 0))

add_course_get ==
    Handled(Request("GET", "add_course", "", NoForm),
            Result(file, Render("add_course.html", NoneV, NoFlash), 0))

add_course_post ==
    \E form \in Forms :
        Handled(Request("POST", "add_course", "", form),
                AddCoursePostResult(file, form))

course_details ==
    \E code \in UrlCodes :
        Handled(Request("GET", "course_details", code, NoForm),
                Result(file, CourseDetailsResult(file, code), 0))

Next ==
    \/ index
    \/ course_catalog
    \/ add_course_get
    \/ add_course_post
    \/ course_details

Spec == Init /\ [][Next]_vars

----------------------------------------------------------------------------
(* The record store on its own: save_courses called once per record *)

StoreRecords == {CourseOf(f) : f \in ValidForms}

StoreSave ==
    \E r \in StoreRecords :
        /\ Len(saved) < MaxSaves
        /\ load_courses(file).ok
        /\ file' = save_courses(file, r)
        /\ saved' = Append(saved, r)
        /\ fresh' = FALSE
        /\ UNCHANGED <<loaded, serverIdle, raceIdle>>

StoreLoad ==
    /\ loaded' = load_courses(file)
    /\ fresh' = TRUE
    /\ UNCHANGED <<file, saved, serverIdle, raceIdle>>

StoreNext ==
    \/ StoreSave
    \/ StoreLoad

SpecStore == Init /\ [][StoreNext]_vars

----------------------------------------------------------------------------
(* Two POST /add_course requests served concurrently; every read of the   *)
(* file and every whole-file write is one step                            *)

RaceForms == ValidForms \cup {[f EXCEPT !["description"] = ""] : f \in ValidForms}

Arrive(p) ==
    \E form \in RaceForms :
        /\ pc[p] = "idle"
        /\ rform' = [rform EXCEPT ![p] = form]
        /\ pc' = [pc EXCEPT ![p] = "check"]
        /\ UNCHANGED <<file, data, courses, out, order, seen, serverIdle, storeIdle>>

\* add_course up to save_courses(courses): validation, load, duplicate scan
Check(p) ==
    /\ pc[p] = "check"
    /\ LET c == AddCourseCheck(file, rform[p]) IN
        /\ data' = [data EXCEPT ![p] = IF c.go THEN c.data ELSE @]
        /\ out' = [out EXCEPT ![p] = IF c.go THEN @ ELSE c.resp]
        /\ pc' = [pc EXCEPT ![p] = IF c.go THEN "save_load" ELSE "done"]
    /\ UNCHANGED <<file, rform, courses, order, seen, serverIdle, storeIdle>>

\* save_courses: courses = load_courses(); courses.append(data)
SaveLoad(p) ==
    /\ pc[p] = "save_load"
    /\ LET ld == load_courses(file) IN
        /\ courses' = [courses EXCEPT ![p] = IF ld.ok THEN SaveAppend(ld.val, data[p]) ELSE @]
        /\ out' = [out EXCEPT ![p] = IF ld.ok THEN @ ELSE Raise("JSONDecodeError")]
        /\ pc' = [pc EXCEPT ![p] = IF ld.ok THEN "save_write" ELSE "done"]
    /\ seen' = [seen EXCEPT ![p] = Len(order)]
    /\ UNCHANGED <<file, rform, data, order, serverIdle, storeIdle>>

\* save_courses: json.dump(courses, file); then flash and redirect
SaveWrite(p) ==
    /\ pc[p] = "save_write"
    /\ file' = Written(courses[p])
    /\ order' = Append(order, p)
    /\ out' = [out EXCEPT ![p] = Redirect("course_catalog", CourseAdded)]
    /\ pc' = [pc EXCEPT ![p] = "done"]
    /\ UNCHANGED <<rform, data, courses, seen, serverIdle, storeIdle>>

RaceNext ==
    \/ \E p \in Procs : Arrive(p)
    \/ \E p \in Procs : Check(p)
    \/ \E p \in Procs : SaveLoad(p)
    \/ \E p \in Procs : SaveWrite(p)

SpecRace == Init /\ [][RaceNext]_vars

----------------------------------------------------------------------------
(* Vocabulary of the properties *)

\* the catalog as a load returns it: the sequence of its elements
Catalog(f) == load_courses(f).val.items

\* a Course record: exactly the nine fields, each a non-empty string
IsCourse(v) ==
    /\ v.tag = "dict"
    /\ DOMAIN v.d = FieldSet
    /\ \A k \in FieldSet : v.d[k].tag = "str" /\ v.d[k].s # ""

\* every dict found in v, at any depth of list nesting, in order
RECURSIVE RecordsIn(_)
RECURSIVE RecordsInItems(_, _)
RecordsInItems(items, i) ==
    IF i > Len(items) THEN <<>>
    ELSE RecordsIn(items[i]) \o RecordsInItems(items, i + 1)
RecordsIn(v) ==
    CASE v.tag = "list" -> RecordsInItems(v.items, 1)
      [] v.tag = "dict" -> <<v>>
      [] OTHER -> <<>>

Persisted(f) == RecordsIn(load_courses(f).val)

IsPost == req.method = "POST" /\ req.route = "add_course"
IsDetails == req.method = "GET" /\ req.route = "course_details"

\* a field of the form is absent or the empty string
FormMissing(form) == \E k \in FieldSet : k \notin DOMAIN form \/ form[k] = ""

\* the nine-field record a complete form submits
Submitted(form) == Dict([k \in FieldSet |-> Str(form[k])])

\* no persisted record of file f carries the code
CodeNew(f, code) ==
    \A i \in 1..Len(Persisted(f)) : Persisted(f)[i].d["code"] # Str(code)

Contains(items, v) == \E i \in 1..Len(items) : items[i] = v

Succeeded == resp = Redirect("course_catalog", CourseAdded)
MissingFields == resp = Render("add_course.html", NoneV, AllRequired)
DuplicateCode == resp = Render("add_course.html", NoneV, CodeExists)

----------------------------------------------------------------------------
(* Properties of the sequential server (Spec) *)

\* C1: a POST /add_course with nine non-empty fields and a code that no
\* persisted record carries succeeds, and a load right after it returns a
\* sequence whose last element equals the submitted record.
C1_AddedIsLast ==
    (IsPost /\ ~FormMissing(req.form) /\ CodeNew(prevFile, req.form["code"]))
    => /\ Succeeded
       /\ load_courses(file).ok
       /\ Len(Catalog(file)) > 0
       /\ Catalog(file)[Len(Catalog(file))] = Submitted(req.form)

\* C2: every element of the persisted catalog is a Course record: a mapping
\* with exactly the nine named fields, each a non-empty string.
C2_ElementsAreCourses ==
    /\ load_courses(file).ok
    /\ \A i \in 1..Len(Catalog(file)) : IsCourse(Catalog(file)[i])

\* C3: a POST /add_course with a field absent or empty gets the "All fields
\* are required!" outcome and leaves the file untouched: no write, same
\* existence, same content.
C3_MissingFieldsRejected ==
    (IsPost /\ FormMissing(req.form))
    => /\ MissingFields
       /\ nwrites = 0
       /\ file = prevFile

\* C3 witness: such a form was submitted against a catalog that already
\* exists, and was rejected.
C3_Witness ==
    /\ IsPost
    /\ FormMissing(req.form)
    /\ prevFile.exists
    /\ MissingFields

\* C4: of two consecutive complete POSTs with the same code, the first
\* succeeding, the second gets the "already exists" outcome, and afterwards
\* the catalog holds the first record and not the second.
C4_SecondIsDuplicate ==
    [][ ( /\ IsPost
          /\ Succeeded
          /\ IsPost'
          /\ ~FormMissing(req'.form)
          /\ req'.form["code"] = req.form["code"] )
        => /\ DuplicateCode'
           /\ Contains(Catalog(file'), Submitted(req.form))
           /\ (Submitted(req'.form) # Submitted(req.form)
                 => ~Contains(Catalog(file'), Submitted(req'.form))) ]_vars

\* C5: no two records of the persisted catalog have the same code.
C5_UniqueCodes ==
    /\ load_courses(file).ok
    /\ \A i, j \in 1..Len(Persisted(file)) :
          i # j => Persisted(file)[i].d["code"] # Persisted(file)[j].d["code"]

\* C5 witness: a complete form whose code is already persisted was
\* submitted, and the catalog holds a record.
C5_Witness ==
    /\ IsPost
    /\ ~FormMissing(req.form)
    /\ ~CodeNew(prevFile, req.form["code"])
    /\ Len(Persisted(file)) > 0

\* C6: every POST /add_course ends in exactly the outcome its input calls
\* for (missing fields, duplicate code, or success) and never in an error.
C6_PostOutcomes ==
    IsPost
    => /\ resp.kind # "error"
       /\ IF FormMissing(req.form) THEN MissingFields
          ELSE IF CodeNew(prevFile, req.form["code"]) THEN Succeeded
          ELSE DuplicateCode

\* C7: GET /course/<c> renders the first record of the catalog whose code
\* is c when there is one, otherwise flashes not-found and redirects to the
\* catalog; it raises no error and leaves the file as it was.
C7_CourseDetails ==
    IsDetails
    => LET items == Catalog(prevFile)
           hits == {i \in 1..Len(items) :
                      items[i].tag = "dict" /\ items[i].d["code"] = Str(req.code)}
       IN  /\ resp.kind # "error"
           /\ file = prevFile
           /\ IF hits # {}
              THEN resp = Render("course_details.html",
                                 items[CHOOSE i \in hits : \A j \in hits : i <= j],
                                 NoFlash)
              ELSE resp = Redirect("course_catalog", NoCourseFound(req.code))

\* C9: a request either succeeds in adding (one write, the catalog one
\* element longer, the old catalog an unchanged prefix of the new) or leaves
\* the file exactly as it was.
C9_AllOrNothing ==
    IF Succeeded
    THEN /\ nwrites = 1
         /\ Len(Catalog(file)) = Len(Catalog(prevFile)) + 1
         /\ SubSeq(Catalog(file), 1, Len(Catalog(prevFile))) = Catalog(prevFile)
    ELSE /\ nwrites = 0
         /\ file = prevFile

\* C9 witness: a POST succeeded and wrote the file.
C9_Witness ==
    /\ IsPost
    /\ Succeeded
    /\ file # prevFile

----------------------------------------------------------------------------
(* Property of the record store (SpecStore) *)

\* C8: after save_courses was called once per record, starting from an
\* absent file, load_courses returns exactly those records, in that order.
C8_RoundTrip ==
    fresh => loaded = [ok |-> TRUE, val |-> List(saved)]

\* C8 witness: a load after at least two saves of different records.
C8_Witness ==
    /\ fresh
    /\ Len(saved) >= 2
    /\ saved[1] # saved[2]
    /\ loaded.ok

----------------------------------------------------------------------------
(* Property of the concurrent server (SpecRace) *)

BothAdded ==
    /\ \A p \in Procs : pc[p] = "done"
    /\ \A p \in Procs : out[p] = Redirect("course_catalog", CourseAdded)
    /\ Len(order) = 2

\* C10: when both concurrent requests have reported success, the file is
\* what the last writer wrote: if that writer read the file inside
\* save_courses before the other wrote, the other's addition is gone;
\* otherwise both additions are there, in write order.
C10_LastWriterWins ==
    BothAdded
    => Catalog(file) = IF seen[order[2]] = 0
                       THEN <<data[order[2]]>>
                       ELSE <<data[order[1]], data[order[2]]>>

\* C10 witness: both requests, with distinct codes, reported success and
\* the record of the one that wrote first is nowhere in the file.
C10_LostUpdate ==
    /\ BothAdded
    /\ rform[1]["code"] # rform[2]["code"]
    /\ Len(Catalog(file)) = 1
    /\ ~Contains(Persisted(file), Submitted(rform[order[1]]))
    /\ Contains(Persisted(file), Submitted(rform[order[2]]))

====
